---------------------------- MODULE Spec2Model ----------------------------
(***************************************************************************)
(* The Tamaki sensor hub: a sampling loop (main thread) that reads the     *)
(* sensors, publishes one UDP payload per tick and paces itself from a     *)
(* shared target frequency, and a UDP command listener (second thread)     *)
(* that changes that frequency and may reboot or shut down the host.       *)
(*                                                                         *)
(* The repository holds four generations of the same program; `variant`    *)
(* selects the one a behaviour runs:                                       *)
(*   "v1"   src/tamaki_udp_sender.py                   (no lock, no gate)  *)
(*   "bb"   src/blackberryBackup/tamaki_udp_sender.py                      *)
(*   "mk2"  src/release_mk2(i2c+Mux)/tamaki_udp_sender.py                  *)
(*   "tm"   src/timemachine_udp_sender.py              (rotary, OSC)       *)
(*                                                                         *)
(* Frequencies are Python floats.  A float is modelled as a record         *)
(* [inf, c]: c is the value in hundredths of a hertz, inf marks            *)
(* float('inf').  Durations are in milliseconds.  Axis values read from    *)
(* the hardware are in 1/10000 of a unit and published in 1/1000.          *)
(***************************************************************************)
EXTENDS Integers, Sequences, FiniteSets, TLC

\* ------------------------------------------------------------- bounds
\* number of configured logical sensors (NUM_SENSORS / ActiveSensors)
NumSensors == 2
\* the sampling loop of the model stops starting ticks at this packet_count
MaxPackets == 1

Variants == {"v1", "bb", "mk2", "tm", "mk1"}
Sensors == 1..NumSensors

\* ------------------------------------------------------------- floats
Fin(c) == [inf |-> FALSE, c |-> c]
Inf == [inf |-> TRUE, c |-> 0]

\* f > 0
FGt0(f) == f.inf \/ f.c > 0

\* 1.0 / f in milliseconds, for f > 0 (1.0 / inf is 0.0)
Reciprocal(f) == IF f.inf THEN 0 ELSE 100000 \div f.c

\* ------------------------------------------------------- JSON values
\* The value found under "hz".  t is the Python type json.loads produced;
\* v is the number (int: hertz, float: hundredths of a hertz, bool: 0/1).
\* "bigint" is an integer literal beyond the range of a double (10**400),
\* "inf" the literal Infinity or 1e999, "nan" the literal NaN.
JInt(n) == [t |-> "int", v |-> n]
JFloat(c) == [t |-> "float", v |-> c]
JBool(b) == [t |-> "bool", v |-> b]
JOther(t) == [t |-> t, v |-> 0]
JNone == JOther("null")

HzInputs ==
    {JInt(-1), JInt(0), JFloat(15), JBool(1), JOther("bigint"), JOther("inf"), JOther("nan"),
     JOther("str"), JOther("null"), JOther("list"), JOther("absent")}

\* dict.get(key): a missing key and a JSON null both give None
DictGet(j) == IF j.t = "absent" THEN JNone ELSE j

\* isinstance(x, (int, float)): bool is a subclass of int
IsIntOrFloat(j) == j.t \in {"int", "bigint", "float", "inf", "nan", "bool"}

\* x >= 0 for an int or float x (nan >= 0 is False)
GeZero(j) ==
    CASE j.t \in {"int", "float", "bool"} -> j.v >= 0
      [] j.t \in {"bigint", "inf"} -> TRUE
      [] OTHER -> FALSE

\* float(x) raises OverflowError for an int too large for a double
FloatRaises(j) == j.t = "bigint"

\* float(x) otherwise
PyFloat(j) ==
    CASE j.t \in {"int", "bool"} -> Fin(j.v * 100)
      [] j.t = "float" -> Fin(j.v)
      [] OTHER -> Inf

\* ---------------------------------------------------------- datagrams
\* kind: "badutf8" bytes that are not UTF-8, "notjson" text json.loads
\* rejects, "nonobj" JSON that is not an object, "obj" a JSON object.
\* command "absent" is an object without the key "command".
Dgram(k, c, h) == [kind |-> k, command |-> c, hz |-> h]
NoDgram == Dgram("none", "absent", JOther("absent"))

Commands == {"reboot", "shutdown", "get_status", "bogus", "absent"}

Datagrams ==
    {Dgram("badutf8", "absent", JOther("absent")),
     Dgram("notjson", "absent", JOther("absent")),
     Dgram("nonobj", "absent", JOther("absent"))}
    \cup {Dgram("obj", c, JOther("absent")) : c \in Commands}
    \cup {Dgram("obj", "set_frequency", h) : h \in HzInputs}

\* ------------------------------------------------------------ sensors
\* what sensor_obj.magnetic returns in one tick: three raw axis values, or
\* an exception (ok = FALSE)
HwTriples == {<<12344, -26, 31>>}
HwOutcomes ==
    {[ok |-> FALSE, xyz |-> <<0, 0, 0>>]}
    \cup {[ok |-> TRUE, xyz |-> t] : t \in HwTriples}

\* round(x, 3): raw 1/10000 to the nearest 1/1000
Round3(r) == IF r >= 0 THEN (r + 5) \div 10 ELSE -((5 - r) \div 10)

\* payload_dict["Sensor"][key] = val on an insertion-ordered dict
DictSet(d, key, val) ==
    IF \E i \in 1..Len(d) : d[i].id = key
    THEN [i \in 1..Len(d) |-> IF d[i].id = key THEN [id |-> key, val |-> val] ELSE d[i]]
    ELSE Append(d, [id |-> key, val |-> val])

\* an entry that marks a failed read with -1 on every axis
SensorEntryErrorMarker(has_obj, out) ==
    IF has_obj /\ out.ok
    THEN <<Round3(out.xyz[1]), Round3(out.xyz[2]), Round3(out.xyz[3])>>
    ELSE IF has_obj THEN <<-1, -1, -1>> ELSE <<0, 0, 0>>

\* the entry of one sensor: the default triple, replaced by the hardware's
\* values when the sensor has a handle and the read does not raise
SensorEntry(has_obj, out) ==
    IF has_obj /\ out.ok
    THEN <<Round3(out.xyz[1]), Round3(out.xyz[2]), Round3(out.xyz[3])>>
    ELSE <<0, 0, 0>>

\* a loop over the sensor list in which a read that raises ends the loop
RECURSIVE BuildSensorDictAbort(_, _, _, _, _)
BuildSensorDictAbort(configs, objs, hw, i, acc) ==
    IF i > Len(configs) THEN acc
    ELSE IF objs[configs[i]] /\ ~hw[configs[i]].ok THEN acc
    ELSE BuildSensorDictAbort(configs, objs, hw, i + 1,
            DictSet(acc, configs[i], SensorEntry(objs[configs[i]], hw[configs[i]])))

\* the loop over the sensor list that builds payload_dict["Sensor"]
RECURSIVE BuildSensorDict(_, _, _, _, _)
BuildSensorDict(configs, objs, hw, i, acc) ==
    IF i > Len(configs) THEN acc
    ELSE BuildSensorDict(configs, objs, hw, i + 1,
            DictSet(acc, configs[i], SensorEntry(objs[configs[i]], hw[configs[i]])))

\* ----------------------------------------------------- control replies
\* what the listener sends back, and what it does to the host
\* type: the kind of text; cmd: the command it names; freq, hz: the value
\* it names; n1, n2: the sensor counts of a status reply; rot: the
\* "last_position" and "button_pressed" of a status reply
Absent == -1
NoReadings == [pos |-> Absent, btn |-> Absent]
Msg(type, cmd, freq, hz, n1, n2) ==
    [type |-> type, cmd |-> cmd, freq |-> freq, hz |-> hz, n1 |-> n1, n2 |-> n2,
     rot |-> NoReadings]
Plain(type) == Msg(type, "", Fin(0), JNone, 0, 0)
Named(type, cmd) == Msg(type, cmd, Fin(0), JNone, 0, 0)
\* one entry of the log of a datagram's handling: a reply handed to the
\* socket ("reply"), a sendto that raised ("sendfail"), an os.system call
\* ("host")
Ev(e, m) == [e |-> e, m |-> m]

\* listener_socket.sendto(...) inside the inner try: when it raises, the
\* handler `except Exception` sends "NACK: Error processing command"
SendInTry(m, ok1, ok2) ==
    IF ok1 THEN <<Ev("reply", m)>>
    ELSE <<Ev("sendfail", m),
           Ev(IF ok2 THEN "reply" ELSE "sendfail", Plain("NACK_ERROR"))>>

\* listener_socket.sendto(...) inside an except handler: when it raises,
\* the outer handler only logs
SendInHandler(m, ok) == <<Ev(IF ok THEN "reply" ELSE "sendfail", m)>>

VARIABLES
    variant,                  \* which generation of the program runs
    g_send_frequency_hz,      \* shared target frequency
    g_enable_system_commands, \* EnableSystemCommands of config.ini
    g_frequency_lock,         \* "free", or the thread holding it
    g_stop_command_listener,  \* the stop event
    sensor_objs,              \* sensor -> TRUE when its handle was created
    g_last_position,          \* tm: last encoder position read
    g_last_button_pressed,    \* tm: last button state read
    rotary_sent,              \* tm: datagrams the previous tick sent (-1: no tick yet)
    pc_main,                  \* position of the main thread
    current_target_freq,      \* main: frequency captured by this tick
    desired_delay_s,          \* main: this tick's period in ms
    packet_count,             \* main: datagrams counted as sent
    exit_cause,               \* why the main loop was left
    join_warning,             \* what the shutdown found: "none" before the join,
                              \* then "clean" or "warned" (listener still alive)
    pc_listener,              \* position of the listener thread
    datagram,                 \* listener: the datagram being handled
    freq_before,              \* the frequency when that datagram arrived
    current_freq,             \* listener: get_status' copy of the frequency
    handled,                  \* the handling of a datagram the last step completed
    ticked,                   \* the tick body the last step executed
    paced,                    \* the end of a tick the last step executed
    unlocked_access,          \* the last step accessed the frequency without the lock
    i2c_locked,               \* multiplexer scripts: the shared bus lock is held
    tca_channel,              \* the channel the multiplexer routes, 0 when none
    pc_script,                \* the bus script's position
    scan_ch,                  \* the channel the bus script works on
    bus_trace,                \* the bus operations the script made, in order
    osc_in,                   \* osc_message: the arguments of the call
    osc_out                   \* osc_message: what the call gave, NoCall before it

vars == <<variant, g_send_frequency_hz, g_enable_system_commands, g_frequency_lock,
          g_stop_command_listener, sensor_objs, g_last_position,
          g_last_button_pressed, rotary_sent, pc_main, current_target_freq, desired_delay_s,
          packet_count, exit_cause, join_warning, pc_listener, datagram, freq_before,
          current_freq, handled, ticked, paced, unlocked_access,
          i2c_locked, tca_channel, pc_script, scan_ch, bus_trace, osc_in, osc_out>>

bus_vars == <<i2c_locked, tca_channel, pc_script, scan_ch, bus_trace>>
osc_vars == <<osc_in, osc_out>>

config_vars == <<variant, g_enable_system_commands, sensor_objs>>
main_vars == <<pc_main, current_target_freq, desired_delay_s, packet_count, exit_cause,
               join_warning>>
listener_vars == <<pc_listener, datagram, freq_before, current_freq>>
rotary_vars == <<g_last_position, g_last_button_pressed, rotary_sent>>

\* InitialSendFrequencyHz values of config.ini taken by the model
InitialFreqs == {Fin(-500), Fin(0), Fin(1000)}
\* v1 has no lock, no EnableSystemCommands and no get_status; it executes
\* reboot and shutdown unconditionally, as a program whose setting is on
HasLock(v) == v # "v1"
\* the archived mk1 is a script without a command listener thread, with
\* the constant SEND_FREQUENCY_HZ = 0 in place of g_send_frequency_hz
HasListener(v) == v # "mk1"
SEND_FREQUENCY_HZ == Fin(0)
HasGate(v) == v # "v1"
HasStatus(v) == v # "v1"

\* encoder positions the hardware of the model reports
Positions == {0, 1}

\* the sensors that were given a handle, in configuration order
sensor_configs == [i \in 1..NumSensors |-> i]
g_active_sensor_objects == SelectSeq(sensor_configs, LAMBDA s : sensor_objs[s])
\* a mutation of the initialisation loop: the count is incremented before
\* the constructor is called
RECURSIVE CountAttempted(_, _, _, _)
CountAttempted(configs, objs, i, count) ==
    IF i > Len(configs) THEN count
    ELSE CountAttempted(configs, objs, i + 1, count + 1)

\* the initialisation loop: g_initialized_sensor_count += 1 after the
\* constructor of a sensor returned
RECURSIVE CountInitialized(_, _, _, _)
CountInitialized(configs, objs, i, count) ==
    IF i > Len(configs) THEN count
    ELSE CountInitialized(configs, objs, i + 1, IF objs[configs[i]] THEN count + 1 ELSE count)

g_initialized_sensor_count == CountInitialized(sensor_configs, sensor_objs, 1, 0)

\* the sensors a tick iterates over: mk2 and mk1 keep only those with a
\* handle
TickSensors(v) == IF v \in {"mk2", "mk1"} THEN g_active_sensor_objects ELSE sensor_configs

\* a mutation of the read loop: .magnetic is evaluated for every entry
SensorsReadEvery(configs, objs) == {configs[i] : i \in 1..Len(configs)}

\* `if sensor_obj:` guards sensor_obj.magnetic in the loop over the list
SensorsRead(configs, objs) == {configs[i] : i \in {j \in 1..Len(configs) : objs[configs[j]]}}

NoHw == [s \in Sensors |-> [ok |-> FALSE, xyz |-> <<0, 0, 0>>]]

\* handled: d the datagram, before the frequency when it arrived, log the
\* replies handed to the socket, failed sends and host actions, in order
NoHandled == [valid |-> FALSE, d |-> NoDgram, before |-> Fin(0), log |-> <<>>]
Handled(d, before, log) == [valid |-> TRUE, d |-> d, before |-> before, log |-> log]

\* ticked: hw what the hardware returned, payload the dict that was built,
\* serialized whether json.dumps returned, published the number of
\* datagrams handed to the socket, osc the OSC messages among them
\* (tm: rot what the two reads of the rotary device returned)
NoRotary == [pos |-> [ok |-> FALSE, v |-> 0], btn |-> [ok |-> FALSE, v |-> 0]]
\* reads: the sensors whose .magnetic the tick evaluated
NoTick == [valid |-> FALSE, hw |-> NoHw, payload |-> <<>>, serialized |-> FALSE,
           published |-> 0, osc |-> <<>>, rot |-> NoRotary, reads |-> {}]
Ticked(hw, p, ser, n, osc) ==
    [valid |-> TRUE, hw |-> hw, payload |-> p, serialized |-> ser, published |-> n,
     osc |-> osc, rot |-> NoRotary, reads |-> SensorsRead(TickSensors(variant), sensor_objs)]
TickedRotary(pos, btn, n, osc) ==
    [valid |-> TRUE, hw |-> NoHw, payload |-> <<>>, serialized |-> TRUE,
     published |-> n, osc |-> osc, rot |-> [pos |-> pos, btn |-> btn], reads |-> {}]

\* paced: how a tick ended.  f the frequency the tick captured, taken the
\* time its body took (loop_time_taken, ms), called whether time.sleep
\* was called, slept the duration it was called with (ms)
NoPace == [valid |-> FALSE, f |-> Fin(0), taken |-> 0, called |-> FALSE, slept |-> 0]
Paced(f, taken, called, slept) ==
    [valid |-> TRUE, f |-> f, taken |-> taken, called |-> called, slept |-> slept]

\* what a step reports: handled, ticked, paced, unlocked_access describe
\* the step just taken and nothing earlier
ObserveAll(h, t, p, u) ==
    /\ handled' = h
    /\ ticked' = t
    /\ paced' = p
    /\ unlocked_access' = u
    /\ UNCHANGED <<bus_vars, osc_vars>>

\* a step that ends no tick
Observe(h, t, u) == ObserveAll(h, t, NoPace, u)

\* osc_message outside a call
NoArgs == [address |-> <<>>, type_tags |-> <<>>, args |-> <<>>]
NoCall == [raised |-> "nocall", bytes |-> <<>>]

Init ==
    /\ variant \in Variants
    /\ g_send_frequency_hz \in (CASE variant = "v1" -> {Fin(1000)}
                                  [] variant = "mk1" -> {SEND_FREQUENCY_HZ}
                                  [] OTHER -> InitialFreqs)
    /\ g_enable_system_commands \in (IF HasGate(variant) /\ HasListener(variant)
                                     THEN BOOLEAN ELSE {TRUE})
    /\ g_frequency_lock = "free"
    /\ g_stop_command_listener = FALSE
    /\ sensor_objs \in (IF variant = "tm" THEN {[s \in Sensors |-> TRUE]}
                        ELSE [Sensors -> BOOLEAN])
    /\ g_last_position \in (IF variant = "tm" THEN Positions ELSE {0})
    /\ g_last_button_pressed \in (IF variant = "tm" THEN {0, 1} ELSE {0})
    /\ rotary_sent = -1
    /\ pc_main = (IF variant = "mk1" THEN "start" ELSE "top")
    /\ current_target_freq = Fin(0)
    /\ desired_delay_s = 0
    /\ packet_count = 0
    /\ exit_cause = "none"
    /\ join_warning = "none"
    /\ pc_listener = (IF HasListener(variant) THEN "bind" ELSE "none")
    /\ datagram = NoDgram
    /\ freq_before = Fin(0)
    /\ current_freq = Fin(0)
    /\ handled = NoHandled
    /\ ticked = NoTick
    /\ paced = NoPace
    /\ unlocked_access = FALSE
    /\ i2c_locked = FALSE
    /\ tca_channel = 0
    /\ pc_script = "none"
    /\ scan_ch = 0
    /\ bus_trace = <<>>
    /\ osc_in = NoArgs
    /\ osc_out = NoCall

\* ========================================================== the listener

\* an access to g_send_frequency_hz by `thread` is unlocked when the
\* thread does not hold g_frequency_lock
Unlocked(thread) == g_frequency_lock # thread

\* a bind whose failure also sets the stop signal of the main loop
command_listener_bind_stops_main(ok) ==
    /\ pc_listener = "bind"
    /\ pc_main # "done"
    /\ pc_listener' = IF ok THEN "loop" ELSE "exited"
    /\ g_stop_command_listener' = (g_stop_command_listener \/ ~ok)
    /\ Observe(NoHandled, NoTick, FALSE)
    /\ UNCHANGED <<config_vars, main_vars, rotary_vars, g_send_frequency_hz,
                   g_frequency_lock, datagram, freq_before,
                   current_freq>>

\* listener_socket.bind(("", PI_COMMAND_PORT)); OSError ends the thread
command_listener_bind(ok) ==
    /\ pc_listener = "bind"
    /\ pc_main # "done"
    /\ pc_listener' = IF ok THEN "loop" ELSE "exited"
    /\ Observe(NoHandled, NoTick, FALSE)
    /\ UNCHANGED <<config_vars, main_vars, rotary_vars, g_send_frequency_hz,
                   g_frequency_lock, g_stop_command_listener, datagram, freq_before,
                   current_freq>>

\* a loop that never looks at the stop signal
command_listener_loop_forever ==
    /\ pc_listener = "loop"
    /\ pc_main # "done"
    /\ pc_listener' = "recvfrom"
    /\ Observe(NoHandled, NoTick, FALSE)
    /\ UNCHANGED <<config_vars, main_vars, rotary_vars, g_send_frequency_hz,
                   g_frequency_lock, g_stop_command_listener, datagram, freq_before,
                   current_freq>>

\* while not g_stop_command_listener.is_set(): ... ; listener_socket.close()
command_listener_loop ==
    /\ pc_listener = "loop"
    /\ pc_main # "done"
    /\ pc_listener' = IF g_stop_command_listener THEN "stopped" ELSE "recvfrom"
    /\ Observe(NoHandled, NoTick, FALSE)
    /\ UNCHANGED <<config_vars, main_vars, rotary_vars, g_send_frequency_hz,
                   g_frequency_lock, g_stop_command_listener, datagram, freq_before,
                   current_freq>>

\* recvfrom raised socket.timeout: continue
command_listener_timeout ==
    /\ pc_listener = "recvfrom"
    /\ pc_main # "done"
    /\ pc_listener' = "loop"
    /\ Observe(NoHandled, NoTick, FALSE)
    /\ UNCHANGED <<config_vars, main_vars, rotary_vars, g_send_frequency_hz,
                   g_frequency_lock, g_stop_command_listener, datagram, freq_before,
                   current_freq>>

\* the reboot / shutdown branch with the host action invoked first
SystemCommandActionFirst(v, enabled, cmd, ok1, ok2) ==
    IF ~HasGate(v) \/ enabled
    THEN <<Ev("host", Named("os.system", cmd))>>
         \o SendInTry(Named("ACK_INITIATED", cmd), ok1, ok2)
    ELSE SendInTry(Named("NACK_DISABLED", cmd), ok1, ok2)

\* the reboot / shutdown branch with the policy test left out
SystemCommandUngated(v, enabled, cmd, ok1, ok2) ==
    IF ok1
    THEN <<Ev("reply", Named("ACK_INITIATED", cmd)), Ev("host", Named("os.system", cmd))>>
    ELSE SendInTry(Named("ACK_INITIATED", cmd), FALSE, ok2)

\* the reboot / shutdown branch: what it sends and invokes, in order
SystemCommand(v, enabled, cmd, ok1, ok2) ==
    IF ~HasGate(v) \/ enabled
    THEN IF ok1
         THEN <<Ev("reply", Named("ACK_INITIATED", cmd)),
                Ev("host", Named("os.system", cmd))>>
         ELSE SendInTry(Named("ACK_INITIATED", cmd), FALSE, ok2)
    ELSE SendInTry(Named("NACK_DISABLED", cmd), ok1, ok2)

\* isinstance(new_freq_val, (int, float)) and new_freq_val >= 0
ValidFrequency(j) == IsIntOrFloat(j) /\ GeZero(j)

\* a dispatch in which bytes that are not UTF-8 end the thread
AfterDispatchDecodeFatal(v, d) ==
    IF d.kind = "badutf8" THEN "exited"
    ELSE IF d.kind = "obj" /\ d.command = "set_frequency" /\ ValidFrequency(DictGet(d.hz))
    THEN IF HasLock(v) THEN "sf_acquire" ELSE "sf_write"
    ELSE IF d.kind = "obj" /\ d.command = "get_status" /\ HasStatus(v)
    THEN "gs_acquire"
    ELSE "loop"

\* where the listener is after the dispatch on `action`
AfterDispatch(v, d) ==
    IF d.kind = "obj" /\ d.command = "set_frequency" /\ ValidFrequency(DictGet(d.hz))
    THEN IF HasLock(v) THEN "sf_acquire" ELSE "sf_write"
    ELSE IF d.kind = "obj" /\ d.command = "get_status" /\ HasStatus(v)
    THEN "gs_acquire"
    ELSE "loop"

\* a dispatch whose final else treats every other command as a shutdown
DispatchElseShutdown(v, enabled, d, ok1, ok2) ==
    CASE d.kind = "badutf8" -> <<>>
      [] d.kind = "notjson" -> SendInHandler(Plain("NACK_JSON"), ok1)
      [] d.kind = "nonobj" -> SendInHandler(Plain("NACK_ERROR"), ok1)
      [] OTHER ->
           CASE d.command \in {"reboot", "shutdown"} ->
                    SystemCommand(v, enabled, d.command, ok1, ok2)
             [] d.command = "set_frequency" ->
                    SendInTry(Msg("NACK_INVALID_FREQ", "", Fin(0), DictGet(d.hz), 0, 0),
                              ok1, ok2)
             [] OTHER -> SystemCommand(v, enabled, "shutdown", ok1, ok2)

\* a dispatch whose if / elif chain has no final else
DispatchNoElse(v, enabled, d, ok1, ok2) ==
    CASE d.kind = "badutf8" -> <<>>
      [] d.kind = "notjson" -> SendInHandler(Plain("NACK_JSON"), ok1)
      [] d.kind = "nonobj" -> SendInHandler(Plain("NACK_ERROR"), ok1)
      [] OTHER ->
           CASE d.command \in {"reboot", "shutdown"} ->
                    SystemCommand(v, enabled, d.command, ok1, ok2)
             [] d.command = "set_frequency" ->
                    SendInTry(Msg("NACK_INVALID_FREQ", "", Fin(0), DictGet(d.hz), 0, 0),
                              ok1, ok2)
             [] OTHER -> <<>>

\* what the handling of datagram d sends and invokes when it ends in the
\* dispatch itself
Dispatch(v, enabled, d, ok1, ok2) ==
    CASE d.kind = "badutf8" -> <<>>
      [] d.kind = "notjson" -> SendInHandler(Plain("NACK_JSON"), ok1)
      [] d.kind = "nonobj" -> SendInHandler(Plain("NACK_ERROR"), ok1)
      [] OTHER ->
           CASE d.command \in {"reboot", "shutdown"} ->
                    SystemCommand(v, enabled, d.command, ok1, ok2)
             [] d.command = "set_frequency" ->
                    SendInTry(Msg("NACK_INVALID_FREQ", "", Fin(0), DictGet(d.hz), 0, 0),
                              ok1, ok2)
             [] OTHER -> SendInTry(Named("NACK_UNKNOWN", d.command), ok1, ok2)

\* data, addr = recvfrom(1024); decode; json.loads; dispatch on "command"
command_listener_recv(d, ok1, ok2) ==
    /\ pc_listener = "recvfrom"
    /\ pc_main # "done"
    /\ pc_listener' = AfterDispatch(variant, d)
    /\ IF pc_listener' = "loop"
       THEN /\ Observe(Handled(d, g_send_frequency_hz,
                               Dispatch(variant, g_enable_system_commands, d, ok1, ok2)),
                       NoTick, FALSE)
            /\ UNCHANGED <<datagram, freq_before>>
       ELSE /\ Observe(NoHandled, NoTick, FALSE)
            /\ datagram' = d
            /\ freq_before' = g_send_frequency_hz
    /\ UNCHANGED <<config_vars, main_vars, rotary_vars, g_send_frequency_hz,
                   g_frequency_lock, g_stop_command_listener, current_freq>>

\* with g_frequency_lock: (entering)
command_listener_sf_acquire ==
    /\ pc_listener = "sf_acquire"
    /\ pc_main # "done"
    /\ g_frequency_lock = "free"
    /\ g_frequency_lock' = "listener"
    /\ pc_listener' = "sf_write"
    /\ Observe(NoHandled, NoTick, FALSE)
    /\ UNCHANGED <<config_vars, main_vars, rotary_vars, g_send_frequency_hz,
                   g_stop_command_listener, datagram, freq_before, current_freq>>

\* the value g_send_frequency_hz = float(new_freq_val) stores
StoredFrequency(j) == PyFloat(j)

\* g_send_frequency_hz = float(new_freq_val), and leaving the with block;
\* an OverflowError leaves it too and is answered by `except Exception`
command_listener_sf_write(ok) ==
    /\ pc_listener = "sf_write"
    /\ pc_main # "done"
    /\ IF FloatRaises(DictGet(datagram.hz))
       THEN /\ Observe(Handled(datagram, freq_before,
                               SendInHandler(Plain("NACK_ERROR"), ok)),
                       NoTick, FALSE)
            /\ pc_listener' = "loop"
            /\ datagram' = NoDgram
            /\ freq_before' = Fin(0)
            /\ UNCHANGED g_send_frequency_hz
       ELSE /\ g_send_frequency_hz' = StoredFrequency(DictGet(datagram.hz))
            /\ Observe(NoHandled, NoTick, Unlocked("listener"))
            /\ pc_listener' = "sf_ack"
            /\ UNCHANGED <<datagram, freq_before>>
    /\ g_frequency_lock' = "free"
    /\ UNCHANGED <<config_vars, main_vars, rotary_vars, g_stop_command_listener,
                   current_freq>>

\* f"ACK: Frequency set to {g_send_frequency_hz} Hz"
FrequencyAck(stored) == Msg("ACK_FREQ", "", stored, JNone, 0, 0)

\* the log line and the acknowledgement, both formatted from the global
command_listener_sf_ack(ok1, ok2) ==
    /\ pc_listener = "sf_ack"
    /\ pc_main # "done"
    /\ Observe(Handled(datagram, freq_before,
                       SendInTry(FrequencyAck(g_send_frequency_hz), ok1, ok2)),
               NoTick, Unlocked("listener"))
    /\ pc_listener' = "loop"
    /\ datagram' = NoDgram
    /\ freq_before' = Fin(0)
    /\ UNCHANGED <<config_vars, main_vars, rotary_vars, g_send_frequency_hz,
                   g_frequency_lock, g_stop_command_listener, current_freq>>

\* with g_frequency_lock: (entering, get_status)
command_listener_gs_acquire ==
    /\ pc_listener = "gs_acquire"
    /\ pc_main # "done"
    /\ g_frequency_lock = "free"
    /\ g_frequency_lock' = "listener"
    /\ pc_listener' = "gs_read"
    /\ Observe(NoHandled, NoTick, FALSE)
    /\ UNCHANGED <<config_vars, main_vars, rotary_vars, g_send_frequency_hz,
                   g_stop_command_listener, datagram, freq_before, current_freq>>

\* a mutation of get_status' read: the lock is taken with acquire() and
\* not released
command_listener_gs_read_keeps_lock ==
    /\ pc_listener = "gs_read"
    /\ pc_main # "done"
    /\ current_freq' = g_send_frequency_hz
    /\ Observe(NoHandled, NoTick, Unlocked("listener"))
    /\ pc_listener' = "gs_send"
    /\ UNCHANGED <<config_vars, main_vars, rotary_vars, g_send_frequency_hz,
                   g_frequency_lock, g_stop_command_listener, datagram, freq_before>>

\* current_freq = g_send_frequency_hz, and leaving the with block
command_listener_gs_read ==
    /\ pc_listener = "gs_read"
    /\ pc_main # "done"
    /\ current_freq' = g_send_frequency_hz
    /\ Observe(NoHandled, NoTick, Unlocked("listener"))
    /\ g_frequency_lock' = "free"
    /\ pc_listener' = "gs_send"
    /\ UNCHANGED <<config_vars, main_vars, rotary_vars, g_send_frequency_hz,
                   g_stop_command_listener, datagram, freq_before>>

\* tm: g_initialized_device_count, 1 once initialize_hardware returned
g_initialized_device_count == 1

\* status_msg: the frequency, the initialized and the configured counts
\* (tm: the count of initialized devices, no configured count, and the
\* last position and button state)
StatusMsg(v, f) ==
    IF v = "tm"
    THEN [Msg("STATUS", "", f, JNone, g_initialized_device_count, Absent)
             EXCEPT !.rot = [pos |-> g_last_position, btn |-> g_last_button_pressed]]
    ELSE Msg("STATUS", "", f, JNone, g_initialized_sensor_count, NumSensors)

\* listener_socket.sendto(json.dumps(status_msg)...)
command_listener_gs_send(ok1, ok2) ==
    /\ pc_listener = "gs_send"
    /\ pc_main # "done"
    /\ Observe(Handled(datagram, freq_before,
                       SendInTry(StatusMsg(variant, current_freq), ok1, ok2)),
               NoTick, FALSE)
    /\ current_freq' = Fin(0)
    /\ pc_listener' = "loop"
    /\ datagram' = NoDgram
    /\ freq_before' = Fin(0)
    /\ UNCHANGED <<config_vars, main_vars, rotary_vars, g_send_frequency_hz,
                   g_frequency_lock, g_stop_command_listener>>

command_listener ==
    \/ \E ok \in BOOLEAN : command_listener_bind(ok)
    \/ command_listener_loop
    \/ command_listener_timeout
    \/ \E d \in Datagrams, ok1, ok2 \in BOOLEAN : command_listener_recv(d, ok1, ok2)
    \/ command_listener_sf_acquire
    \/ \E ok \in BOOLEAN : command_listener_sf_write(ok)
    \/ \E ok1, ok2 \in BOOLEAN : command_listener_sf_ack(ok1, ok2)
    \/ command_listener_gs_acquire
    \/ command_listener_gs_read
    \/ \E ok1, ok2 \in BOOLEAN : command_listener_gs_send(ok1, ok2)

\* ======================================================= the main thread
\* a period that is never shorter than a millisecond
DesiredDelayFloor(f) == IF FGt0(f) THEN Reciprocal(f) ELSE 1
\* desired_delay_s for a captured frequency f
DesiredDelay(f) == IF FGt0(f) THEN Reciprocal(f) ELSE 0

\* int(f * 5) for a finite f
IntTimes5(f) == (f.c * 5) \div 100

Max(a, b) == IF a >= b THEN a ELSE b

\* The periodic statistics step of each variant for captured frequency f
\* and packet_count n: "log", "skip", or the exception it raises.
LogStats(v, f, n) ==
    CASE v = "v1" -> IF n % 200 = 0 /\ n > 0 THEN "log" ELSE "skip"
      [] v = "bb" ->
           IF n > 0
           THEN IF FGt0(f)
                THEN IF f.inf THEN "OverflowError"
                     ELSE IF IntTimes5(f) = 0 THEN "ZeroDivisionError"
                     ELSE IF n % IntTimes5(f) = 0 THEN "log" ELSE "skip"
                ELSE IF n % 200 = 0 THEN "log" ELSE "skip"
           ELSE "skip"
      [] v = "mk2" ->
           IF f.inf THEN "OverflowError"
           ELSE LET k == IF f.c > 10 THEN IntTimes5(f) ELSE 200
                    k1 == IF k < 1 THEN 1 ELSE k
                IN  IF n > 0 /\ n % k1 = 0 THEN "log" ELSE "skip"
      [] v = "mk1" -> IF n % 100 = 0 /\ n > 0 THEN "log" ELSE "skip"
      [] OTHER ->
           IF f.inf THEN "OverflowError"
           ELSE LET k == IF FGt0(f) THEN IntTimes5(f) * 2 ELSE 400
                IN  IF n > 0 /\ n % Max(k, 1) = 0 THEN "log" ELSE "skip"

\* while not g_stop_command_listener.is_set(): with g_frequency_lock: (entering)
main_acquire ==
    /\ pc_main = "top"
    /\ HasLock(variant)
    /\ ~g_stop_command_listener
    /\ packet_count < MaxPackets
    /\ g_frequency_lock = "free"
    /\ g_frequency_lock' = "main"
    /\ pc_main' = "m_read"
    /\ Observe(NoHandled, NoTick, FALSE)
    /\ UNCHANGED <<config_vars, listener_vars, rotary_vars, g_send_frequency_hz,
                   g_stop_command_listener, current_target_freq, desired_delay_s,
                   packet_count, exit_cause>>
    /\ UNCHANGED join_warning

\* a mutation of main_read_freq: a negative frequency is replaced by zero
\* in the global before it is used
main_read_freq_clamps ==
    /\ pc_main = "m_read"
    /\ g_send_frequency_hz' = (IF ~g_send_frequency_hz.inf /\ g_send_frequency_hz.c < 0
                               THEN Fin(0) ELSE g_send_frequency_hz)
    /\ current_target_freq' = g_send_frequency_hz'
    /\ Observe(NoHandled, NoTick, Unlocked("main"))
    /\ g_frequency_lock' = "free"
    /\ desired_delay_s' = DesiredDelay(g_send_frequency_hz')
    /\ pc_main' = "tick"
    /\ UNCHANGED <<config_vars, listener_vars, rotary_vars,
                   g_stop_command_listener, packet_count, exit_cause>>
    /\ UNCHANGED join_warning

\* a mutation of main_read_freq: the tick body is entered inside the with
\* block
main_read_freq_in_block ==
    /\ pc_main = "m_read"
    /\ current_target_freq' = g_send_frequency_hz
    /\ Observe(NoHandled, NoTick, Unlocked("main"))
    /\ desired_delay_s' = DesiredDelay(g_send_frequency_hz)
    /\ pc_main' = "tick"
    /\ UNCHANGED <<config_vars, listener_vars, rotary_vars, g_send_frequency_hz,
                   g_frequency_lock, g_stop_command_listener, packet_count, exit_cause>>
    /\ UNCHANGED join_warning

\* current_target_freq = g_send_frequency_hz, leaving the with block, and
\* desired_delay_s computed from the copy
main_read_freq ==
    /\ pc_main = "m_read"
    /\ current_target_freq' = g_send_frequency_hz
    /\ Observe(NoHandled, NoTick, Unlocked("main"))
    /\ g_frequency_lock' = "free"
    /\ desired_delay_s' = DesiredDelay(g_send_frequency_hz)
    /\ pc_main' = "tick"
    /\ UNCHANGED <<config_vars, listener_vars, rotary_vars, g_send_frequency_hz,
                   g_stop_command_listener, packet_count, exit_cause>>
    /\ UNCHANGED join_warning

\* v1: while True: if g_send_frequency_hz > 0: (the first read of the global)
main_v1_check ==
    /\ pc_main = "top"
    /\ ~HasLock(variant)
    /\ packet_count < MaxPackets
    /\ current_target_freq' = g_send_frequency_hz
    /\ Observe(NoHandled, NoTick, Unlocked("main"))
    /\ IF FGt0(g_send_frequency_hz)
       THEN pc_main' = "div" /\ UNCHANGED desired_delay_s
       ELSE pc_main' = "tick" /\ desired_delay_s' = 0
    /\ UNCHANGED <<config_vars, listener_vars, rotary_vars, g_send_frequency_hz,
                   g_frequency_lock, g_stop_command_listener, packet_count,
                   exit_cause>>
    /\ UNCHANGED join_warning

\* v1: desired_delay_s = 1.0 / g_send_frequency_hz (the second read)
main_v1_divide ==
    /\ pc_main = "div"
    /\ Observe(NoHandled, NoTick, Unlocked("main"))
    /\ IF g_send_frequency_hz.inf \/ g_send_frequency_hz.c # 0
       THEN /\ desired_delay_s' = Reciprocal(g_send_frequency_hz)
            /\ pc_main' = "tick"
            /\ UNCHANGED exit_cause
       ELSE /\ exit_cause' = "ZeroDivisionError"
            /\ pc_main' = "finally"
            /\ UNCHANGED desired_delay_s
    /\ UNCHANGED <<config_vars, listener_vars, rotary_vars, g_send_frequency_hz,
                   g_frequency_lock, g_stop_command_listener, current_target_freq,
                   packet_count>>
    /\ UNCHANGED join_warning

\* the hardware is asked only for sensors that have a handle
HwChoices ==
    {h \in [Sensors -> HwOutcomes] : \A s \in Sensors : ~sensor_objs[s] => h[s] = NoHw[s]}

\* the payload of a loop that a raising read ends
ReadSensorsAbortOnError(v, hw) ==
    BuildSensorDictAbort(TickSensors(v), sensor_objs, hw, 1, <<>>)

\* read_sensors_and_build_json (v1: the for loop of the main loop): the
\* dict under "Sensor"
read_sensors_and_build_json(v, hw) ==
    BuildSensorDict(TickSensors(v), sensor_objs, hw, 1, <<>>)

\* a tick body in which a sendto that raises is not caught inside the loop
main_tick_send_fatal(hw, ser_ok, send_ok) ==
    /\ pc_main = "tick"
    /\ variant \notin {"tm", "mk1"}
    /\ hw \in HwChoices
    /\ Observe(NoHandled,
               Ticked(hw, read_sensors_and_build_json(variant, hw), ser_ok,
                      IF ser_ok /\ send_ok THEN 1 ELSE 0, <<>>),
               FALSE)
    /\ packet_count' = IF ser_ok /\ send_ok THEN packet_count + 1 ELSE packet_count
    /\ pc_main' = IF ser_ok /\ ~send_ok THEN "finally"
                  ELSE IF variant = "v1" /\ ~ser_ok THEN "continue" ELSE "sleep"
    /\ exit_cause' = IF ser_ok /\ ~send_ok THEN "OSError" ELSE exit_cause
    /\ UNCHANGED <<config_vars, listener_vars, rotary_vars, g_send_frequency_hz,
                   g_frequency_lock, g_stop_command_listener, current_target_freq,
                   desired_delay_s>>
    /\ UNCHANGED join_warning

\* the tick body: the payload is built, serialized and sent.  ser_ok:
\* json.dumps does not raise; send_ok: sendto does not.
main_tick(hw, ser_ok, send_ok) ==
    /\ pc_main = "tick"
    /\ variant # "tm"
    /\ hw \in HwChoices
    /\ Observe(NoHandled,
               Ticked(hw, read_sensors_and_build_json(variant, hw), ser_ok,
                      IF ser_ok /\ send_ok THEN 1 ELSE 0, <<>>),
               FALSE)
    /\ packet_count' = IF ser_ok /\ send_ok THEN packet_count + 1 ELSE packet_count
    /\ pc_main' = IF variant = "v1" /\ ~ser_ok THEN "continue" ELSE "sleep"
    /\ UNCHANGED <<config_vars, listener_vars, rotary_vars, g_send_frequency_hz,
                   g_frequency_lock, g_stop_command_listener, current_target_freq,
                   desired_delay_s, exit_cause>>
    /\ UNCHANGED join_warning

\* mk1: for i, sensor in enumerate(sensors): the three lines of a sensor
\* are named after its position i in the list, with the values of the read
\* or zeros when it raises
RECURSIVE BuildMessageParts(_, _, _, _)
BuildMessageParts(sensors, hw, i, acc) ==
    IF i > Len(sensors) THEN acc
    ELSE BuildMessageParts(sensors, hw, i + 1,
            Append(acc, [id |-> i, val |-> SensorEntry(TRUE, hw[sensors[i]])]))

\* mk1, before the loop: if not sensors: exit(1); the socket is created and
\* desired_delay_s is computed once from the constant
main_mk1_start ==
    /\ pc_main = "start"
    /\ IF g_active_sensor_objects = <<>>
       THEN /\ pc_main' = "exited"
            /\ exit_cause' = "exit(1)"
            /\ UNCHANGED desired_delay_s
       ELSE /\ pc_main' = "mk1_tick"
            /\ desired_delay_s' = (IF FGt0(SEND_FREQUENCY_HZ)
                                   THEN Reciprocal(SEND_FREQUENCY_HZ) ELSE 0)
            /\ UNCHANGED exit_cause
    /\ Observe(NoHandled, NoTick, FALSE)
    /\ UNCHANGED <<config_vars, listener_vars, rotary_vars, g_send_frequency_hz,
                   g_frequency_lock, g_stop_command_listener, current_target_freq,
                   packet_count, join_warning>>

\* mk1, the tick body: the message is built from the list of handles and
\* sent when it is not empty; the sendto is in no try block of the loop, so
\* a sendto that raises leaves the loop
main_mk1_tick(hw, send_ok) ==
    /\ pc_main = "mk1_tick"
    /\ packet_count < MaxPackets
    /\ hw \in HwChoices
    /\ LET message_parts == BuildMessageParts(g_active_sensor_objects, hw, 1, <<>>)
           sent == message_parts # <<>> /\ send_ok
       IN  /\ Observe(NoHandled,
                      Ticked(hw, message_parts, TRUE, IF sent THEN 1 ELSE 0, <<>>),
                      FALSE)
           /\ packet_count' = IF sent THEN packet_count + 1 ELSE packet_count
           /\ IF message_parts # <<>> /\ ~send_ok
              THEN pc_main' = "mk1_finally" /\ exit_cause' = "OSError"
              ELSE pc_main' = "sleep" /\ UNCHANGED exit_cause
    /\ UNCHANGED <<config_vars, listener_vars, rotary_vars, g_send_frequency_hz,
                   g_frequency_lock, g_stop_command_listener, current_target_freq,
                   desired_delay_s, join_warning>>

\* mk1, finally: the socket is closed, the totals are printed and the
\* script ends (there is no thread to stop or join)
main_mk1_finally ==
    /\ pc_main = "mk1_finally"
    /\ pc_main' = "exited"
    /\ Observe(NoHandled, NoTick, FALSE)
    /\ UNCHANGED <<config_vars, listener_vars, rotary_vars, g_send_frequency_hz,
                   g_frequency_lock, g_stop_command_listener, current_target_freq,
                   desired_delay_s, packet_count, exit_cause, join_warning>>

\* what one hardware read of the rotary device gives
RotaryReads ==
    {[ok |-> FALSE, v |-> 0]} \cup {[ok |-> TRUE, v |-> p] : p \in Positions}

\* button_pressed = 0 if g_button.value else 1 (pull-up: True is released)
ButtonPressed(value) == IF value = 1 THEN 0 ELSE 1

\* a read that falls back to 0 when it raises
read_rotary_zero_on_error(last, out) == IF out.ok THEN out.v ELSE 0

\* read_rotary: each of the two reads keeps the last value when it raises
read_rotary(last, out) == IF out.ok THEN out.v ELSE last

\* tm: read_rotary, two osc_message, two sendto.  pos, btn: what
\* g_encoder.position and g_button.value return; sends: how many of the
\* two sendto calls returned before one raised.
main_tick_rotary(pos, btn, sends) ==
    /\ pc_main = "tick"
    /\ variant = "tm"
    /\ g_last_position' = read_rotary(g_last_position, pos)
    /\ g_last_button_pressed' =
          read_rotary(g_last_button_pressed,
                      [ok |-> btn.ok, v |-> ButtonPressed(btn.v)])
    /\ Observe(NoHandled,
               TickedRotary(pos, btn, sends,
                      SubSeq(<<[address |-> "/rotary/pos", arg |-> g_last_position'],
                               [address |-> "/rotary/btn",
                                arg |-> g_last_button_pressed']>>, 1, sends)),
               FALSE)
    /\ packet_count' = IF sends = 2 THEN packet_count + 2 ELSE packet_count
    /\ rotary_sent' = sends
    /\ pc_main' = "sleep"
    /\ UNCHANGED <<config_vars, listener_vars, g_send_frequency_hz, g_frequency_lock,
                   g_stop_command_listener, current_target_freq, desired_delay_s,
                   exit_cause>>
    /\ UNCHANGED join_warning

\* durations of a tick body the model takes (ms): shorter and longer than
\* the period of 10 Hz
WorkTimes == {20, 150}

\* v1: except TypeError: ... continue.  The rest of the loop body, the
\* pacing sleep included, is skipped; taken is how long the body took.
main_v1_continue(taken) ==
    /\ pc_main = "continue"
    /\ pc_main' = "top"
    /\ ObserveAll(NoHandled, NoTick, Paced(current_target_freq, taken, FALSE, 0), FALSE)
    /\ current_target_freq' = Fin(0)
    /\ desired_delay_s' = 0
    /\ UNCHANGED <<config_vars, listener_vars, rotary_vars, g_send_frequency_hz,
                   g_frequency_lock, g_stop_command_listener, packet_count, exit_cause>>
    /\ UNCHANGED join_warning

\* sleep_duration = desired_delay_s - loop_time_taken, when desired_delay_s > 0
SleepDuration(delay, taken) == delay - taken

\* loop_time_taken = time.monotonic() - loop_start_time;
\* if desired_delay_s > 0: if sleep_duration > 0: time.sleep(sleep_duration)
main_sleep(taken) ==
    /\ pc_main = "sleep"
    /\ pc_main' = "stats"
    /\ LET call == desired_delay_s > 0 /\ SleepDuration(desired_delay_s, taken) > 0
       IN  ObserveAll(NoHandled, NoTick,
                      Paced(current_target_freq, taken, call,
                            IF call THEN SleepDuration(desired_delay_s, taken) ELSE 0),
                      FALSE)
    /\ UNCHANGED <<config_vars, listener_vars, rotary_vars, g_send_frequency_hz,
                   g_frequency_lock, g_stop_command_listener, current_target_freq,
                   desired_delay_s, packet_count, exit_cause>>
    /\ UNCHANGED join_warning

\* where the while loop starts over
LoopTop(v) == IF v = "mk1" THEN "mk1_tick" ELSE "top"
\* where an exception that leaves the while loop lands
FinallyPc(v) == IF v = "mk1" THEN "mk1_finally" ELSE "finally"

\* the statistics step; an exception it raises leaves the while loop
main_stats ==
    /\ pc_main = "stats"
    /\ LET r == LogStats(variant, current_target_freq, packet_count)
       IN  /\ IF r \in {"log", "skip"}
              THEN pc_main' = LoopTop(variant) /\ UNCHANGED exit_cause
              ELSE pc_main' = "finally" /\ exit_cause' = r
           /\ Observe(NoHandled, NoTick, variant = "v1" /\ r = "log")
    /\ current_target_freq' = Fin(0)
    /\ desired_delay_s' = 0
    /\ UNCHANGED <<config_vars, listener_vars, rotary_vars, g_send_frequency_hz,
                   g_frequency_lock, g_stop_command_listener, packet_count>>
    /\ UNCHANGED join_warning

LoopPcs == {"top", "m_read", "div", "tick", "mk1_tick", "continue", "sleep", "stats"}

\* KeyboardInterrupt anywhere in the loop; a with block releases the lock
main_interrupt ==
    /\ pc_main \in LoopPcs
    /\ exit_cause' = "KeyboardInterrupt"
    /\ pc_main' = FinallyPc(variant)
    /\ g_frequency_lock' = IF g_frequency_lock = "main" THEN "free" ELSE g_frequency_lock
    /\ current_target_freq' = Fin(0)
    /\ desired_delay_s' = 0
    /\ Observe(NoHandled, NoTick, FALSE)
    /\ rotary_sent' = -1
    /\ UNCHANGED <<config_vars, listener_vars, g_last_position, g_last_button_pressed,
                   g_send_frequency_hz, g_stop_command_listener, packet_count>>
    /\ UNCHANGED join_warning

\* finally: g_stop_command_listener.set()
main_finally ==
    /\ pc_main = "finally"
    /\ g_stop_command_listener' = TRUE
    /\ pc_main' = "join"
    /\ Observe(NoHandled, NoTick, FALSE)
    /\ UNCHANGED <<config_vars, listener_vars, rotary_vars, g_send_frequency_hz,
                   g_frequency_lock, current_target_freq, desired_delay_s,
                   packet_count, exit_cause>>
    /\ UNCHANGED join_warning

\* the thread has not returned from command_listener
ListenerAlive == pc_listener \notin {"exited", "stopped"}

\* a join that returns only when the thread has ended
main_join_no_timeout ==
    /\ pc_main = "join"
    /\ ~ListenerAlive
    /\ pc_main' = "done"
    /\ join_warning' = "clean"
    /\ Observe(NoHandled, NoTick, FALSE)
    /\ UNCHANGED <<config_vars, listener_vars, rotary_vars, g_send_frequency_hz,
                   g_frequency_lock, g_stop_command_listener, current_target_freq,
                   desired_delay_s, packet_count, exit_cause>>

\* if command_thread.is_alive(): command_thread.join(timeout=2.0) returns
\* (the thread ended, or 2 s passed); if command_thread.is_alive(): the
\* warning is logged; the socket is closed and the process ends
main_join ==
    /\ pc_main = "join"
    /\ pc_main' = "done"
    /\ join_warning' = IF ListenerAlive THEN "warned" ELSE "clean"
    /\ Observe(NoHandled, NoTick, FALSE)
    /\ UNCHANGED <<config_vars, listener_vars, rotary_vars, g_send_frequency_hz,
                   g_frequency_lock, g_stop_command_listener, current_target_freq,
                   desired_delay_s, packet_count, exit_cause>>

main ==
    \/ main_acquire
    \/ main_read_freq
    \/ main_v1_check
    \/ main_v1_divide
    \/ \E hw \in [Sensors -> HwOutcomes], ser_ok, send_ok \in BOOLEAN :
          main_tick(hw, ser_ok, send_ok)
    \/ \E pos, btn \in RotaryReads, sends \in 0..2 : main_tick_rotary(pos, btn, sends)
    \/ \E taken \in WorkTimes : main_v1_continue(taken)
    \/ \E taken \in WorkTimes : main_sleep(taken)
    \/ main_stats
    \/ main_interrupt
    \/ main_finally
    \/ main_join
    \/ main_mk1_start
    \/ \E hw \in [Sensors -> HwOutcomes], send_ok \in BOOLEAN : main_mk1_tick(hw, send_ok)
    \/ main_mk1_finally

Next == main \/ command_listener

Spec == Init /\ [][Next]_vars

\* ================================================= the multiplexer scripts
\* the bus script of TestScripts: safe_scan over every channel, the sensor
\* reads, then recover_channel on one channel; every write to the bus may
\* raise
NumChannels == 3
Channels == 1..NumChannels
RecoverChannel == NumChannels - 1

\* one bus operation: e is "lock", "select", "deselect", "access" or
\* "unlock", ch the channel it names (0 for none), ok whether it went
\* through
Op(e, ch, ok) == [e |-> e, ch |-> ch, ok |-> ok]

\* TCA9548A_Channel.try_lock: wait for the bus lock, then write the channel
\* switch; a write that raises leaves the lock taken
try_lock(ch, ok) ==
    /\ ~i2c_locked
    /\ i2c_locked' = TRUE
    /\ tca_channel' = IF ok THEN ch ELSE tca_channel
    /\ bus_trace' = bus_trace \o <<Op("lock", ch, TRUE), Op("select", ch, ok)>>

\* TCA9548A_Channel.unlock: write 0x00 to deselect every channel, then
\* release the bus lock; a write that raises skips the release
unlock(ch, ok) ==
    /\ tca_channel' = IF ok THEN 0 ELSE tca_channel
    /\ i2c_locked' = IF ok THEN FALSE ELSE i2c_locked
    /\ bus_trace' = bus_trace \o
           (<<Op("deselect", ch, ok)>> \o IF ok THEN <<Op("unlock", ch, TRUE)>> ELSE <<>>)

prog_vars == <<variant, g_send_frequency_hz, g_enable_system_commands, g_frequency_lock,
               g_stop_command_listener, sensor_objs, g_last_position,
               g_last_button_pressed, rotary_sent, pc_main, current_target_freq,
               desired_delay_s, packet_count, exit_cause, join_warning, pc_listener,
               datagram, freq_before, current_freq, handled, ticked, paced,
               unlocked_access>>

\* no sender is started
ProgIdle ==
    /\ variant = "none"
    /\ g_send_frequency_hz = Fin(0)
    /\ g_enable_system_commands = FALSE
    /\ g_frequency_lock = "free"
    /\ g_stop_command_listener = FALSE
    /\ sensor_objs = [s \in Sensors |-> FALSE]
    /\ g_last_position = 0
    /\ g_last_button_pressed = 0
    /\ rotary_sent = -1
    /\ pc_main = "none"
    /\ current_target_freq = Fin(0)
    /\ desired_delay_s = 0
    /\ packet_count = 0
    /\ exit_cause = "none"
    /\ join_warning = "none"
    /\ pc_listener = "none"
    /\ datagram = NoDgram
    /\ freq_before = Fin(0)
    /\ current_freq = Fin(0)
    /\ handled = NoHandled
    /\ ticked = NoTick
    /\ paced = NoPace
    /\ unlocked_access = FALSE

\* the script runs alone
BusInit ==
    /\ ProgIdle
    /\ i2c_locked = FALSE
    /\ tca_channel = 0
    /\ pc_script = "scan"
    /\ scan_ch = 1
    /\ bus_trace = <<>>
    /\ osc_in = NoArgs
    /\ osc_out = NoCall

\* safe_scan: tca[ch].try_lock() stands outside the try, an exception of
\* its select ends the script
safe_scan_try_lock(ok) ==
    /\ pc_script = "scan"
    /\ try_lock(scan_ch, ok)
    /\ pc_script' = IF ok THEN "scan_ping" ELSE "crashed"
    /\ UNCHANGED <<scan_ch, prog_vars, osc_vars>>

\* safe_ping: an empty write to the sensor, its exception is swallowed
safe_scan_ping(present) ==
    /\ pc_script = "scan_ping"
    /\ bus_trace' = Append(bus_trace, Op("access", scan_ch, present))
    /\ pc_script' = "scan_unlock"
    /\ UNCHANGED <<i2c_locked, tca_channel, scan_ch, prog_vars, osc_vars>>

\* the finally of safe_scan: an exception of unlock ends the script
safe_scan_unlock(ok) ==
    /\ pc_script = "scan_unlock"
    /\ unlock(scan_ch, ok)
    /\ pc_script' = IF ~ok THEN "crashed"
                    ELSE IF scan_ch < NumChannels THEN "scan" ELSE "read"
    /\ scan_ch' = IF ok /\ scan_ch < NumChannels THEN scan_ch + 1 ELSE scan_ch
    /\ UNCHANGED <<prog_vars, osc_vars>>

\* main's read loop: read_sensor swallows every exception and recovery is
\* commented out; then recover_channel is called on one channel
main_read_sensors ==
    /\ pc_script = "read"
    /\ pc_script' = "rc_deselect"
    /\ scan_ch' = RecoverChannel
    /\ UNCHANGED <<i2c_locked, tca_channel, bus_trace, prog_vars, osc_vars>>

\* recover_channel: the two writes to the multiplexer are made without the
\* lock; an exception anywhere is caught and the function returns False
recover_channel_deselect(ok) ==
    /\ pc_script = "rc_deselect"
    /\ tca_channel' = IF ok THEN 0 ELSE tca_channel
    /\ bus_trace' = Append(bus_trace, Op("deselect", 0, ok))
    /\ pc_script' = IF ok THEN "rc_select" ELSE "done"
    /\ UNCHANGED <<i2c_locked, scan_ch, prog_vars, osc_vars>>

recover_channel_select(ok) ==
    /\ pc_script = "rc_select"
    /\ tca_channel' = IF ok THEN scan_ch ELSE tca_channel
    /\ bus_trace' = Append(bus_trace, Op("select", scan_ch, ok))
    /\ pc_script' = IF ok THEN "rc_lock" ELSE "done"
    /\ UNCHANGED <<i2c_locked, scan_ch, prog_vars, osc_vars>>

recover_channel_try_lock(ok) ==
    /\ pc_script = "rc_lock"
    /\ try_lock(scan_ch, ok)
    /\ pc_script' = IF ok THEN "rc_write" ELSE "done"
    /\ UNCHANGED <<scan_ch, prog_vars, osc_vars>>

recover_channel_writeto(ok) ==
    /\ pc_script = "rc_write"
    /\ bus_trace' = Append(bus_trace, Op("access", scan_ch, ok))
    /\ pc_script' = "rc_unlock"
    /\ UNCHANGED <<i2c_locked, tca_channel, scan_ch, prog_vars, osc_vars>>

recover_channel_unlock(ok) ==
    /\ pc_script = "rc_unlock"
    /\ unlock(scan_ch, ok)
    /\ pc_script' = "done"
    /\ UNCHANGED <<scan_ch, prog_vars, osc_vars>>

BusNext ==
    \/ \E ok \in BOOLEAN : safe_scan_try_lock(ok)
    \/ \E present \in BOOLEAN : safe_scan_ping(present)
    \/ \E ok \in BOOLEAN : safe_scan_unlock(ok)
    \/ main_read_sensors
    \/ \E ok \in BOOLEAN : recover_channel_deselect(ok)
    \/ \E ok \in BOOLEAN : recover_channel_select(ok)
    \/ \E ok \in BOOLEAN : recover_channel_try_lock(ok)
    \/ \E ok \in BOOLEAN : recover_channel_writeto(ok)
    \/ \E ok \in BOOLEAN : recover_channel_unlock(ok)

BusSpec == BusInit /\ [][BusNext]_vars

\* ======================================================= the OSC helpers
\* strings are sequences of code points, bytes sequences of 0..255
Slash == 47
Comma == 44
TagI == 105
TagF == 102
MaxAddrLen == 3
MaxArgs == 2
AddrChars == {Slash, 97, 233}
TagChars == {TagI, TagF, 115}

\* an argument: the integer v, or 2^v when pow is set (an integer wider
\* than 32 bits)
IntArg(v) == [pow |-> FALSE, v |-> v]
PowArg(v) == [pow |-> TRUE, v |-> v]
ArgValues == {IntArg(-3), IntArg(300), PowArg(40)}

RECURSIVE Pow2(_)
Pow2(n) == IF n = 0 THEN 1 ELSE 2 * Pow2(n - 1)

Zeros(n) == [i \in 1..n |-> 0]

\* str.encode("utf-8") of one code point below 0x800, then of a string
encode_char(c) == IF c < 128 THEN <<c>> ELSE <<192 + (c \div 64), 128 + (c % 64)>>

RECURSIVE encode(_)
encode(str) == IF str = <<>> THEN <<>> ELSE encode_char(Head(str)) \o encode(Tail(str))

\* a mutation of _osc_pad4: pads a whole word when the data is aligned
osc_pad4_always(data) == data \o Zeros(4 - (Len(data) % 4))

\* _osc_pad4: pad = (4 - (len(data) % 4)) % 4
osc_pad4(data) == data \o Zeros((4 - (Len(data) % 4)) % 4)

\* struct.pack(">i", int(v)): big-endian two's complement, struct.error
\* outside 32 bits
InInt32(a) == ~a.pow
pack_i(a) ==
    LET w == IF a.v < 0 THEN a.v + Pow2(30) + Pow2(30) ELSE a.v
        top == (IF a.v < 0 THEN 128 ELSE 0) + (w \div Pow2(24))
    IN <<top, (w \div Pow2(16)) % 256, (w \div 256) % 256, w % 256>>

RECURSIVE FloorLog2(_)
FloorLog2(n) == IF n < 2 THEN 0 ELSE 1 + FloorLog2(n \div 2)

\* struct.pack(">f", float(v)): IEEE 754 binary32, round to nearest even
pack_f(a) ==
    LET neg == ~a.pow /\ a.v < 0
        mag == IF a.pow THEN 0 ELSE IF a.v < 0 THEN -a.v ELSE a.v
        e0 == IF a.pow THEN a.v ELSE FloorLog2(mag)
        shift == e0 - 23
        q == IF a.pow THEN Pow2(23)
             ELSE IF shift <= 0 THEN mag * Pow2(-shift)
             ELSE LET d == mag \div Pow2(shift)
                      r == mag % Pow2(shift)
                      half == Pow2(shift - 1)
                  IN IF r > half \/ (r = half /\ d % 2 = 1) THEN d + 1 ELSE d
        e == IF q = Pow2(24) THEN e0 + 1 ELSE e0
        m == IF q = Pow2(24) THEN 0 ELSE q - Pow2(23)
        E == e + 127
    IN IF ~a.pow /\ a.v = 0 THEN <<0, 0, 0, 0>>
       ELSE <<(IF neg THEN 128 ELSE 0) + (E \div 2),
              (E % 2) * 128 + (m \div Pow2(16)), (m \div 256) % 256, m % 256>>

Returned(bytes) == [raised |-> "none", bytes |-> bytes]
Raised(exc) == [raised |-> exc, bytes |-> <<>>]

\* the argument loop: the first tag that cannot be packed raises
RECURSIVE pack_args(_, _, _)
pack_args(type_tags, args, arg_bin) ==
    IF type_tags = <<>> \/ args = <<>> THEN Returned(arg_bin)
    ELSE LET t == Head(type_tags)
             v == Head(args)
         IN IF t = TagI
            THEN IF InInt32(v)
                 THEN pack_args(Tail(type_tags), Tail(args), arg_bin \o pack_i(v))
                 ELSE Raised("struct.error")
            ELSE IF t = TagF
            THEN pack_args(Tail(type_tags), Tail(args), arg_bin \o pack_f(v))
            ELSE Raised("ValueError")

osc_message(address, type_tags, args) ==
    IF address = <<>> \/ Head(address) # Slash THEN Raised("ValueError")
    ELSE LET addr_bin == osc_pad4(encode(address) \o <<0>>)
             tag_str == <<Comma>> \o type_tags
             tags_bin == osc_pad4(encode(tag_str) \o <<0>>)
         IN IF Len(type_tags) # Len(args) THEN Raised("ValueError")
            ELSE LET packed == pack_args(type_tags, args, <<>>)
                 IN IF packed.raised # "none" THEN packed
                    ELSE Returned(addr_bin \o tags_bin \o packed.bytes)

RECURSIVE SeqsUpTo(_, _)
SeqsUpTo(S, n) ==
    IF n = 0 THEN {<<>>}
    ELSE LET shorter == SeqsUpTo(S, n - 1)
         IN shorter \cup {Append(q, x) : q \in shorter, x \in S}

\* one call of osc_message on arguments drawn from the bounded sets
OscInit ==
    /\ ProgIdle
    /\ i2c_locked = FALSE
    /\ tca_channel = 0
    /\ pc_script = "none"
    /\ scan_ch = 0
    /\ bus_trace = <<>>
    /\ osc_in \in [address : SeqsUpTo(AddrChars, MaxAddrLen),
                   type_tags : SeqsUpTo(TagChars, MaxArgs),
                   args : SeqsUpTo(ArgValues, MaxArgs)]
    /\ osc_out = NoCall

call_osc_message ==
    /\ osc_out = NoCall
    /\ osc_out' = osc_message(osc_in.address, osc_in.type_tags, osc_in.args)
    /\ UNCHANGED <<osc_in, prog_vars, bus_vars>>

OscNext == call_osc_message

OscSpec == OscInit /\ [][OscNext]_vars

\* ============================================================ properties
\* the replies of a log that reached the socket, the sends that raised,
\* and the host actions
Replies(log) == SelectSeq(log, LAMBDA x : x.e = "reply")
SendFailures(log) == SelectSeq(log, LAMBDA x : x.e = "sendfail")
HostActions(log) == SelectSeq(log, LAMBDA x : x.e = "host")

\* the last step completed the handling of a set_frequency command
HandledSetFrequency ==
    /\ handled.valid
    /\ handled.d.kind = "obj"
    /\ handled.d.command = "set_frequency"

\* the last step completed the handling of a reboot or shutdown command
HandledSystemCommand ==
    /\ handled.valid
    /\ handled.d.kind = "obj"
    /\ handled.d.command \in {"reboot", "shutdown"}

\* the last step executed the tick body of a variant that publishes the
\* JSON payload with the "Sensor" dict
TickedSensors == ticked.valid /\ variant \in {"v1", "bb", "mk2"}

\* the entries of payload p that belong to sensor s
EntriesOf(p, s) == {i \in 1..Len(p) : p[i].id = s}

\* ------------------------------------------------------------------ C1
\* C1: every datagram the listener receives is answered with exactly one
\* reply: whatever the datagram is (a command, text that is not JSON, JSON
\* that is not an object, bytes that are not UTF-8), and provided no
\* sendto raised while it was handled, the handling hands exactly one
\* reply to the socket.
C1_ExactlyOneReply ==
    (handled.valid /\ SendFailures(handled.log) = <<>>)
        => Len(Replies(handled.log)) = 1

\* ------------------------------------------------------------------ C2
\* C2: the payload of every tick has exactly one entry for each configured
\* sensor, those without a handle and those whose read raised included,
\* and a sensor without a handle appears with the zero triple.
C2_OneEntryPerConfiguredSensor ==
    TickedSensors =>
        /\ Len(ticked.payload) = NumSensors
        /\ \A s \in Sensors :
              /\ Cardinality(EntriesOf(ticked.payload, s)) = 1
              /\ ~sensor_objs[s] =>
                    \A i \in EntriesOf(ticked.payload, s) :
                        ticked.payload[i].val = <<0, 0, 0>>

\* ------------------------------------------------------------------ C3
\* C3: in every tick, each sensor that has a handle and whose read
\* returned is in the payload with the rounded values of that very read,
\* whichever other sensors raised in the tick; as this holds of every
\* tick, a sensor that raises in all of them never holds the others back.
C3_FaultContainment ==
    TickedSensors =>
        \A s \in Sensors :
            (sensor_objs[s] /\ ticked.hw[s].ok) =>
                \E i \in 1..Len(ticked.payload) :
                    /\ ticked.payload[i].id = s
                    /\ ticked.payload[i].val = <<Round3(ticked.hw[s].xyz[1]),
                                                 Round3(ticked.hw[s].xyz[2]),
                                                 Round3(ticked.hw[s].xyz[3])>>

\* a tick in which the first sensor raised and a later sensor's fresh,
\* non-zero values were published
C3_Witness ==
    /\ TickedSensors
    /\ ticked.published = 1
    /\ \E s, t \in Sensors :
          /\ s < t
          /\ sensor_objs[s] /\ ~ticked.hw[s].ok
          /\ sensor_objs[t] /\ ticked.hw[t].ok
          /\ \E i \in 1..Len(ticked.payload) :
                /\ ticked.payload[i].id = t
                /\ ticked.payload[i].val = <<1234, -3, 3>>

\* ------------------------------------------------------------------ C4
\* hz values the claim lists: negative numbers, and values that are not
\* numbers (a string, a boolean, null, a list or object, no "hz" at all)
NegativeOrNotANumber(j) ==
    \/ j.t \in {"int", "float"} /\ j.v < 0
    \/ j.t \in {"str", "bool", "null", "list", "absent"}

\* C4: a set_frequency whose hz is negative or not a number is answered
\* with the invalid-frequency rejection (when no sendto raises) and leaves
\* g_send_frequency_hz as it was when the datagram arrived.
C4_InvalidFrequencyRejected ==
    (HandledSetFrequency /\ NegativeOrNotANumber(handled.d.hz)) =>
        /\ g_send_frequency_hz = handled.before
        /\ SendFailures(handled.log) = <<>> =>
              /\ Len(handled.log) = 1
              /\ handled.log[1].m.type = "NACK_INVALID_FREQ"

\* ------------------------------------------------------------------ C5
\* C5: once a tick has computed its delay, the delay is the one that
\* belongs to the single frequency value the tick captured, and computing
\* it never fails, whatever set_frequency does meanwhile.
C5_DelayFromCapturedFrequency ==
    /\ pc_main \in {"tick", "sleep", "stats"} =>
          desired_delay_s = DesiredDelay(current_target_freq)
    /\ exit_cause = "ZeroDivisionError" => variant # "v1"

\* ------------------------------------------------------------------ C6
\* hz values that are numbers >= 0
NumericGeZero(j) == j.t \in {"int", "float", "bigint", "inf"} /\ GeZero(j)

\* the float f is the number j (no float is 10**400)
SameNumber(f, j) ==
    CASE j.t = "int" -> f = Fin(j.v * 100)
      [] j.t = "float" -> f = Fin(j.v)
      [] j.t = "inf" -> f = Inf
      [] OTHER -> FALSE

\* C6: after a set_frequency with a number hz >= 0 was handled (and no
\* sendto raised), g_send_frequency_hz is hz and the one reply is the
\* acknowledgement naming the stored value.
C6_AcceptedFrequencyStoredAndAcked ==
    (HandledSetFrequency /\ NumericGeZero(handled.d.hz)
                         /\ SendFailures(handled.log) = <<>>) =>
        /\ SameNumber(g_send_frequency_hz, handled.d.hz)
        /\ handled.log = <<Ev("reply", FrequencyAck(g_send_frequency_hz))>>

\* ------------------------------------------------------------------ C7
\* C7: a reboot or shutdown handled while EnableSystemCommands is off
\* (v1 has no such setting and is never in this case)
\* invokes no host action, and what the handler sends first is the
\* rejection that names the configuration and the command; it is the only
\* reply unless that sendto raises.
C7_DisabledSystemCommandRejected ==
    (HandledSystemCommand /\ ~g_enable_system_commands) =>
        /\ HostActions(handled.log) = <<>>
        /\ Len(handled.log) >= 1
        /\ handled.log[1].m = Named("NACK_DISABLED", handled.d.command)
        /\ SendFailures(handled.log) = <<>> => Len(handled.log) = 1

\* a reboot was refused while the setting was off
C7_Witness ==
    /\ HandledSystemCommand
    /\ ~g_enable_system_commands
    /\ handled.d.command = "reboot"
    /\ handled.log = <<Ev("reply", Named("NACK_DISABLED", "reboot"))>>

\* ------------------------------------------------------------------ C8
\* C8: every host action in the handling of a datagram is for the command
\* of that datagram and comes after the acknowledgement of that command
\* reached the socket; no host action is first in the log.
C8_AckBeforeHostAction ==
    handled.valid =>
        \A i \in 1..Len(handled.log) :
            handled.log[i].e = "host" =>
                /\ handled.log[i].m.cmd = handled.d.command
                /\ \E k \in 1..(i - 1) :
                      handled.log[k] =
                          Ev("reply", Named("ACK_INITIATED", handled.d.command))

\* a shutdown was acknowledged and then executed
C8_Witness ==
    /\ HandledSystemCommand
    /\ handled.log = <<Ev("reply", Named("ACK_INITIATED", "shutdown")),
                       Ev("host", Named("os.system", "shutdown"))>>

\* ------------------------------------------------------------------ C9
\* C9: no step of either thread reads or writes g_send_frequency_hz
\* without holding g_frequency_lock.
C9_FrequencyAccessedUnderLock == ~unlocked_access

\* ----------------------------------------------------------------- C10
\* C10: in the variants that take the frequency under the lock, the
\* sampling loop is only ever left by an interrupt: no accepted frequency
\* and no failure inside a tick raises out of it.
C10_LoopSurvives ==
    variant # "v1" => exit_cause \in {"none", "KeyboardInterrupt"}

\* ----------------------------------------------------------------- C11
\* C11: a tick that captured a frequency f > 0 lasts at least 1/f from
\* its start to the start of the next tick: the time its body took plus
\* the time it slept is at least the period, whether or not its
\* serialization or its send failed.
C11_NeverFasterThanTarget ==
    (paced.valid /\ FGt0(paced.f)) =>
        paced.taken + paced.slept >= Reciprocal(paced.f)

\* ----------------------------------------------------------------- C12
\* a tick reads the frequency it will pace itself with
CaptureStep == pc_main \in {"top", "m_read"} /\ pc_main' = "tick"
\* a tick reaches the end of its body
PacingStep == pc_main = "sleep" /\ pc_main' = "stats"

\* C12: a tick that captures the frequency while it is 0 gets the delay
\* 0, keeps that delay until its end, and a tick whose delay is 0 does
\* not call time.sleep.
C12_ZeroFrequencyNoSleep ==
    [][/\ (CaptureStep /\ g_send_frequency_hz = Fin(0)) => desired_delay_s' = 0
       /\ (pc_main \in {"tick", "sleep"} /\ pc_main' \in {"tick", "sleep"})
             => desired_delay_s' = desired_delay_s
       /\ (PacingStep /\ desired_delay_s = 0)
             => (~paced'.called /\ paced'.slept = 0)]_vars

\* v1 starts at 10 Hz: a tick captured 0 after a set_frequency(0) and ended
\* without sleeping, the frequency still being 0
C12_Witness ==
    /\ variant = "v1"
    /\ paced.valid
    /\ paced.f = Fin(0)
    /\ g_send_frequency_hz = Fin(0)
    /\ ~paced.called

\* ----------------------------------------------------------------- C13
\* the listener is between recvfrom and the end of a datagram's handling
HandlingPcs == {"recvfrom", "sf_acquire", "sf_write", "sf_ack", "gs_acquire",
                "gs_read", "gs_send"}

\* C13: whatever the datagram and whatever is raised while it is parsed
\* or answered, the listener stays inside its loop: a handling ends at the
\* top of the loop, and from there the listener goes back to recvfrom
\* unless the stop signal is set, in which case (and only then) it stops.
C13_ListenerSurvivesDatagrams ==
    [][/\ pc_listener \in HandlingPcs => pc_listener' \in HandlingPcs \cup {"loop"}
       /\ handled'.valid => pc_listener' = "loop"
       /\ (pc_listener = "loop" /\ pc_listener' # "loop")
             => pc_listener' = (IF g_stop_command_listener THEN "stopped"
                                ELSE "recvfrom")]_vars

\* text that is not JSON arrived, the sendto of its rejection raised, and
\* the listener is at the top of its loop with the stop signal not set
C13_Witness ==
    /\ handled.valid
    /\ handled.d.kind = "notjson"
    /\ handled.log = <<Ev("sendfail", Plain("NACK_JSON"))>>
    /\ pc_listener = "loop"
    /\ ~g_stop_command_listener

\* ----------------------------------------------------------------- C14
\* a step of the sampling loop other than an interrupt
MainLoopStep ==
    \/ main_acquire
    \/ main_read_freq
    \/ main_v1_check
    \/ main_v1_divide
    \/ \E hw \in [Sensors -> HwOutcomes], ser_ok, send_ok \in BOOLEAN :
          main_tick(hw, ser_ok, send_ok)
    \/ \E pos, btn \in RotaryReads, sends \in 0..2 : main_tick_rotary(pos, btn, sends)
    \/ \E taken \in WorkTimes : main_v1_continue(taken)
    \/ \E taken \in WorkTimes : main_sleep(taken)
    \/ main_stats

\* C14: when the listener thread has ended because it could not bind,
\* the stop signal is not set by that and the sampling loop can take its
\* next step, wherever in the loop it is (below the packet bound).
C14_LoopOutlivesListener ==
    (pc_listener = "exited" /\ pc_main \in LoopPcs) =>
        /\ ~g_stop_command_listener
        /\ (pc_main = "top" => packet_count < MaxPackets) => ENABLED MainLoopStep

\* the listener could not bind and a tick of release_mk2 published a payload
C14_Witness ==
    /\ pc_listener = "exited"
    /\ variant = "mk2"
    /\ ticked.valid
    /\ ticked.published = 1

\* ----------------------------------------------------------------- C15
\* C15: a failure to bind the command port ends the program: once the
\* listener has given up on the bind, no tick body is executed.
C15_BindFailureIsFatal ==
    pc_listener = "exited" => ~ticked.valid

C17_StopEndsListener ==
    /\ [](g_stop_command_listener /\ pc_main # "done" =>
            /\ pc_listener = "recvfrom" => ENABLED command_listener_timeout
            /\ pc_listener = "loop" => ENABLED command_listener_loop
            /\ pc_listener \in HandlingPcs => ENABLED command_listener)
    /\ [][(g_stop_command_listener /\ pc_listener = "loop" /\ pc_listener' # "loop")
             => pc_listener' = "stopped"]_vars

\* the main thread waits in the join and the listener has returned from
\* its loop
C17_Witness ==
    /\ g_stop_command_listener
    /\ pc_main = "join"
    /\ pc_listener = "stopped"

\* ----------------------------------------------------------------- C18
\* the values payload p carries for sensor s
ValuesOf(p, s) == {p[i].val : i \in EntriesOf(p, s)}

\* C18: in every tick, a sensor that has a handle and whose read raised
\* is in the payload with the zero triple, and one whose read returned is
\* in it with the rounded values of the read; no step changes which
\* sensors have a handle, so a sensor that failed is read again in the
\* next tick.
C18_FailedReadZeroAndRetried ==
    /\ [](TickedSensors =>
            \A s \in Sensors :
                sensor_objs[s] =>
                    ValuesOf(ticked.payload, s) =
                        {IF ticked.hw[s].ok
                         THEN <<Round3(ticked.hw[s].xyz[1]), Round3(ticked.hw[s].xyz[2]),
                                Round3(ticked.hw[s].xyz[3])>>
                         ELSE <<0, 0, 0>>})
    /\ [][sensor_objs' = sensor_objs]_vars

\* a tick of release_mk2 published the zero triple for a sensor whose
\* read raised
C18_Witness ==
    /\ TickedSensors
    /\ variant = "mk2"
    /\ ticked.published = 1
    /\ \E s \in Sensors :
          /\ sensor_objs[s]
          /\ ~ticked.hw[s].ok
          /\ ValuesOf(ticked.payload, s) = {<<0, 0, 0>>}

\* ----------------------------------------------------------------- C19
\* the last step executed the tick body of the rotary variant
TickedRotaryStep == ticked'.valid /\ variant = "tm"

\* C19: in every tick of the rotary variant, the position kept and
\* published is the one just read, or the previous one when the read
\* raised; the same holds of the button, independently of the position:
\* each of the two is updated exactly when its own read returned.
C19_RotaryKeepsLastValue ==
    [][TickedRotaryStep =>
          /\ g_last_position' = (IF ticked'.rot.pos.ok THEN ticked'.rot.pos.v
                                 ELSE g_last_position)
          /\ g_last_button_pressed' =
                (IF ticked'.rot.btn.ok THEN ButtonPressed(ticked'.rot.btn.v)
                 ELSE g_last_button_pressed)
          /\ \A i \in 1..Len(ticked'.osc) :
                ticked'.osc[i].arg = (IF ticked'.osc[i].address = "/rotary/pos"
                                      THEN g_last_position'
                                      ELSE g_last_button_pressed')]_vars

\* a tick in which the position read raised and the button read returned
\* "pressed": the position published is the old one, the button the new
C19_Witness ==
    /\ ticked.valid
    /\ variant = "tm"
    /\ ~ticked.rot.pos.ok
    /\ ticked.rot.btn.ok
    /\ ticked.rot.btn.v = 0
    /\ g_last_button_pressed = 1
    /\ ticked.osc = <<[address |-> "/rotary/pos", arg |-> g_last_position],
                      [address |-> "/rotary/btn", arg |-> 1]>>

\* ----------------------------------------------------------------- C20
\* no configured magnetometer was given a handle at startup
NoSensorBound == variant # "tm" /\ \A s \in Sensors : ~sensor_objs[s]

\* C20: when no configured sensor binds, the process does not exit at
\* startup but goes on to its sampling loop, and every tick body it
\* executes publishes a payload that holds each configured sensor, with
\* the zero triple.
C20_StartsAndPublishesZeros ==
    NoSensorBound =>
        /\ exit_cause # "exit(1)"
        /\ ticked.valid =>
              \A s \in Sensors : ValuesOf(ticked.payload, s) = {<<0, 0, 0>>}

\* ----------------------------------------------------------------- C21
\* the variants built as a sampling loop beside a command listener
ThreadedVariants == {"v1", "bb", "mk2", "tm"}

\* the datagrams a tick body hands to sendto when nothing fails
DatagramsPerTick(v) == IF v = "tm" THEN 2 ELSE 1

\* the tick body just executed serialized its payload and a sendto raised
SendFailed(t, v) == t.valid /\ t.serialized /\ t.published < DatagramsPerTick(v)

C22_SerializationFailureSkipsSendOnly ==
    [][/\ (ticked'.valid /\ ~ticked'.serialized) =>
             /\ ticked'.published = 0
             /\ packet_count' = packet_count
       /\ paced'.valid =>
             paced'.slept = (IF desired_delay_s > paced'.taken
                             THEN desired_delay_s - paced'.taken ELSE 0)]_vars

\* ----------------------------------------------------------------- C23
\* C23: when a tick of the rotary variant reads the position and the
\* button state that the tick before it read, and that tick transmitted,
\* the repeat is suppressed: the second tick hands nothing to the socket.
C23_RepeatSuppressed ==
    [][(/\ ticked'.valid
        /\ variant = "tm"
        /\ rotary_sent > 0
        /\ g_last_position' = g_last_position
        /\ g_last_button_pressed' = g_last_button_pressed)
          => ticked'.published = 0]_vars

\* ----------------------------------------------------------------- C24
\* the commands the listener knows
EnumeratedCommands == {"reboot", "shutdown", "set_frequency", "get_status"}

\* C24: the handling of a JSON object whose "command" is none of the
\* enumerated commands, or is missing, invokes no host action, hands
\* nothing but rejections to the socket (exactly one, naming the command
\* as unknown, when no sendto raises) and leaves the frequency, the
\* system-command flag and the sensor handles as they were.
C24_UnknownCommandRejected ==
    [][(/\ handled'.valid
        /\ handled'.d.kind = "obj"
        /\ handled'.d.command \notin EnumeratedCommands)
          => /\ HostActions(handled'.log) = <<>>
             /\ \A i \in 1..Len(Replies(handled'.log)) :
                   Replies(handled'.log)[i].m.type \in {"NACK_UNKNOWN", "NACK_ERROR"}
             /\ SendFailures(handled'.log) = <<>> =>
                   Replies(handled'.log) =
                       <<Ev("reply", Named("NACK_UNKNOWN", handled'.d.command))>>
             /\ g_send_frequency_hz' = g_send_frequency_hz
             /\ g_enable_system_commands' = g_enable_system_commands
             /\ sensor_objs' = sensor_objs]_vars

\* an object without a "command" key was answered with the one rejection
\* while system commands were enabled
C24_Witness ==
    /\ handled.valid
    /\ handled.d.kind = "obj"
    /\ handled.d.command = "absent"
    /\ g_enable_system_commands
    /\ handled.log = <<Ev("reply", Named("NACK_UNKNOWN", "absent"))>>

\* ----------------------------------------------------------------- C25
\* the devices a variant is configured with, and those it holds a handle of
ConfiguredCount(v) == IF v = "tm" THEN 1 ELSE NumSensors
BoundCount(v) == IF v = "tm" THEN 1 ELSE g_initialized_sensor_count

\* the last step completed the handling of a get_status command
HandledGetStatus ==
    /\ handled.valid
    /\ handled.d.kind = "obj"
    /\ handled.d.command = "get_status"

\* C25: the handling of get_status leaves the frequency, the
\* system-command flag and the sensor handles as they were and, when no
\* sendto raises, hands one reply to the socket: a status object with the
\* current frequency, the count of bound sensors and the count of
\* configured sensors.
C25_GetStatusReportsAndKeeps ==
    [][HandledGetStatus' =>
          /\ g_send_frequency_hz' = g_send_frequency_hz
          /\ g_enable_system_commands' = g_enable_system_commands
          /\ sensor_objs' = sensor_objs
          /\ SendFailures(handled'.log) = <<>> =>
                /\ Len(handled'.log) = 1
                /\ handled'.log[1].e = "reply"
                /\ handled'.log[1].m.type = "STATUS"
                /\ handled'.log[1].m.freq = g_send_frequency_hz
                /\ handled'.log[1].m.n1 = BoundCount(variant)
                /\ handled'.log[1].m.n2 = ConfiguredCount(variant)]_vars

\* ----------------------------------------------------------------- C26
\* C26: the target frequency is never negative, from the value loaded at
\* startup on and whatever commands are handled.
C26_FrequencyNeverNegative ==
    g_send_frequency_hz.inf \/ g_send_frequency_hz.c >= 0

\* ----------------------------------------------------------------- C27
\* C27: the listener reads nothing that the sampling loop writes after
\* startup except through the runtime parameters: once a tick has run,
\* no reply the listener hands to the socket carries a reading kept by
\* the sampling loop (every reply is made of the datagram, the frequency,
\* the system-command flag and the counts fixed at startup).
C27_OnlyRuntimeParametersShared ==
    (handled.valid /\ rotary_sent >= 0) =>
        \A i \in 1..Len(handled.log) : handled.log[i].m.rot = NoReadings

\* ------------------------------------------------------------------ C28
\* the positions of the bus script at which no bus access is under way
OutsideAccess == {"scan", "read", "rc_deselect", "rc_select", "rc_lock", "done", "crashed"}

\* C28: each multiplexed bus access is one unit: the bus lock is taken, the
\* channel is selected, the access runs and the lock is released on every
\* way out, a failed access included; nothing comes between the select of a
\* channel and the access made through it
C28_BusAccessAtomic ==
    /\ pc_script \in OutsideAccess => ~i2c_locked
    /\ \A i \in 1..Len(bus_trace) :
          bus_trace[i].e = "access" =>
              /\ i >= 3
              /\ bus_trace[i - 1] = Op("select", bus_trace[i].ch, TRUE)
              /\ bus_trace[i - 2] = Op("lock", bus_trace[i].ch, TRUE)

\* ------------------------------------------------------------------ C29
\* pad4 of a length, and the calls the statement is about
pad4(n) == n + ((4 - (n % 4)) % 4)
OscCalled ==
    /\ osc_out # NoCall
    /\ osc_in.address # <<>> /\ Head(osc_in.address) = Slash
    /\ \A k \in 1..Len(osc_in.type_tags) : osc_in.type_tags[k] \in {TagI, TagF}
    /\ Len(osc_in.type_tags) = Len(osc_in.args)
ArgsFit ==
    \A k \in 1..Len(osc_in.args) : osc_in.type_tags[k] = TagI => InInt32(osc_in.args[k])

\* the message is the address block of pad4(alen + 1) bytes, the type-tag
\* block with its comma, then four bytes for each argument
OscLayout(alen) ==
    LET b == osc_out.bytes
        a == encode(osc_in.address)
        la == pad4(alen + 1)
        lt == pad4(Len(osc_in.type_tags) + 2)
        n == Len(osc_in.args)
    IN /\ osc_out.raised = "none"
       /\ Len(b) = la + lt + 4 * n
       /\ la > Len(a)
       /\ SubSeq(b, 1, la) = a \o Zeros(la - Len(a))
       /\ SubSeq(b, la + 1, la + lt) =
              (<<Comma>> \o osc_in.type_tags) \o Zeros(lt - Len(osc_in.type_tags) - 1)
       /\ \A k \in 1..n :
              SubSeq(b, la + lt + 4 * (k - 1) + 1, la + lt + 4 * k) =
                  (IF osc_in.type_tags[k] = TagI THEN pack_i(osc_in.args[k])
                   ELSE pack_f(osc_in.args[k]))

MainSteps == pc_main' # pc_main
ListenerSteps == pc_listener' # pc_listener

\* every reply the step sent is the answer of `except Exception`, which
\* runs after the with block was left
OnlyErrorReply(h) ==
    \A i \in 1..Len(h.log) : h.log[i].e # "host" /\ h.log[i].m.type = "NACK_ERROR"

\* C30: no socket send or receive, no sensor or bus read and no host action
\* is made by a thread that holds the frequency lock: the holder's next
\* step is the single read or write of the frequency and it releases the
\* lock; the step that takes the lock does no I/O either
C30_NoIOUnderFrequencyLock ==
    [][/\ (g_frequency_lock = "main" /\ MainSteps) =>
              (g_frequency_lock' = "free" /\ ~ticked'.valid /\ ~paced'.valid)
       /\ (g_frequency_lock = "listener" /\ ListenerSteps) =>
              /\ g_frequency_lock' = "free"
              /\ pc_listener \in {"sf_write", "gs_read"}
              /\ handled'.valid => OnlyErrorReply(handled')
       /\ (g_frequency_lock = "free" /\ g_frequency_lock' # "free") =>
              (~ticked'.valid /\ ~handled'.valid)
       /\ ticked'.valid => (g_frequency_lock # "main" /\ g_frequency_lock' # "main")
       /\ handled'.valid => g_frequency_lock' # "listener"
      ]_vars

C30_Witness ==
    /\ variant = "mk2"
    /\ g_frequency_lock = "listener"
    /\ pc_listener = "sf_write"
    /\ pc_main = "tick"

\* ------------------------------------------------------------------ C31
\* C31: a sensor that has no handle is never passed to a hardware read in
\* any tick, and no step (tick or control command) changes which sensors
\* have a handle
C31_UnboundNeverReadTableFixed ==
    [][/\ ticked'.valid => \A s \in ticked'.reads : sensor_objs[s]
       /\ sensor_objs' = sensor_objs]_vars

C31_Witness ==
    /\ variant = "v1"
    /\ ticked.valid
    /\ ~sensor_objs[1] /\ sensor_objs[2]
    /\ ticked.reads = {2}
    /\ ticked.hw[2].ok
    /\ Cardinality(EntriesOf(ticked.payload, 1)) = 1

\* ------------------------------------------------------------------ C32
\* C32: the listener is the only writer of the runtime parameters: no step
\* of the sampling loop changes the frequency, a step that changes it is the
\* listener storing the value of an accepted set_frequency command, and the
\* system-command switch never changes
C32_ListenerSoleWriter ==
    [][/\ g_send_frequency_hz' # g_send_frequency_hz =>
              /\ pc_listener = "sf_write"
              /\ datagram.kind = "obj"
              /\ datagram.command = "set_frequency"
              /\ ValidFrequency(DictGet(datagram.hz))
              /\ g_send_frequency_hz' = PyFloat(DictGet(datagram.hz))
              /\ ~MainSteps
       /\ MainSteps => g_send_frequency_hz' = g_send_frequency_hz
       /\ g_enable_system_commands' = g_enable_system_commands]_vars

C32_Witness ==
    /\ variant = "mk2"
    /\ pc_listener = "sf_ack"
    /\ g_send_frequency_hz # freq_before
    /\ datagram.command = "set_frequency"
    /\ pc_main = "sleep"

\* ------------------------------------------------------------------ C33
\* the replies that reject a command
NackTypes == {"NACK_ERROR", "NACK_INVALID_FREQ", "NACK_JSON", "NACK_UNKNOWN", "NACK_DISABLED"}
RepliedNack(log) == \E i \in 1..Len(log) : log[i].e = "reply" /\ log[i].m.type \in NackTypes

\* C33: when a reply sent for a set_frequency command is a rejection, the
\* frequency is what it was before the command, also when the sendto of
\* the acknowledgement raised
C33_RejectedMeansUnchanged ==
    (HandledSetFrequency /\ RepliedNack(handled.log)) => g_send_frequency_hz = handled.before

\* ------------------------------------------------------------------ C34
\* C34: a host action (reboot, shutdown) is invoked only in the handling of
\* a datagram whose command is reboot or shutdown, at most once for it and
\* for the command it names; no other datagram invokes one
C34_HostActionOnlyForSystemCommand ==
    handled.valid =>
        LET acts == HostActions(handled.log)
        IN /\ Len(acts) <= 1
           /\ acts # <<>> =>
                  /\ HandledSystemCommand
                  /\ acts[1].m = Named("os.system", handled.d.command)

C34_Witness ==
    /\ variant = "mk2"
    /\ HandledSystemCommand
    /\ handled.d.command = "reboot"
    /\ HostActions(handled.log) = <<Ev("host", Named("os.system", "reboot"))>>

\* ------------------------------------------------------------------ C35
\* C35: neither thread blocks the other for good.  While the process runs,
\* the holder of the frequency lock is at its single read or write and its
\* releasing step can be taken; a thread about to take the lock does not
\* hold it, and it can take it unless the other thread holds it: no state
\* leaves the sampling loop or the listener waiting on a lock that will not
\* be released
C35_NoMutualBlocking ==
    pc_main # "done" =>
        /\ g_frequency_lock = "main" => (pc_main = "m_read" /\ ENABLED main_read_freq)
        /\ g_frequency_lock = "listener" =>
               \/ pc_listener = "sf_write" /\ ENABLED (\E ok \in BOOLEAN : command_listener_sf_write(ok))
               \/ pc_listener = "gs_read" /\ ENABLED command_listener_gs_read
        /\ (pc_main = "top" /\ HasLock(variant) /\ ~g_stop_command_listener
                /\ packet_count < MaxPackets) =>
               (ENABLED main_acquire \/ g_frequency_lock = "listener")
        /\ pc_listener = "sf_acquire" =>
               (ENABLED command_listener_sf_acquire \/ g_frequency_lock = "main")
        /\ pc_listener = "gs_acquire" =>
               (ENABLED command_listener_gs_acquire \/ g_frequency_lock = "main")

C35_Witness ==
    /\ variant = "mk2"
    /\ pc_main = "top"
    /\ g_frequency_lock = "listener"
    /\ pc_listener = "gs_read"
    /\ ENABLED command_listener_gs_read
    /\ ~ENABLED main_acquire

\* ------------------------------------------------------------------ C36
\* the listener works on a datagram it has received
InHandling == HandlingPcs \ {"recvfrom"}

\* C36: once the stop signal is set the listener begins no new receive, so
\* it handles at most the one datagram whose receive was in progress: a
\* receive gives one datagram or none, its handling ends at the top of the
\* loop without another receive, and after the loop has seen the signal the
\* listener has returned and handles nothing
C36_AtMostOneDatagramAfterStop ==
    [][/\ (g_stop_command_listener /\ pc_listener # "recvfrom") => pc_listener' # "recvfrom"
       /\ (pc_listener \in HandlingPcs /\ ListenerSteps) =>
              pc_listener' \in InHandling \cup {"loop"}
       /\ handled'.valid => (pc_listener \in HandlingPcs /\ pc_listener' = "loop")
       /\ pc_listener \in {"stopped", "exited"} =>
              (pc_listener' = pc_listener /\ ~handled'.valid)]_vars

\* a datagram was handled after the signal was set
C36_Witness ==
    /\ g_stop_command_listener
    /\ handled.valid
    /\ handled.d.kind = "obj"
    /\ pc_listener = "loop"
    /\ pc_main = "join"

\* ------------------------------------------------------------------ C37
\* C37: what a tick publishes under a sensor's identifier is the reading of
\* the device on that sensor's own channel (the default when it has no
\* handle or the read raised), and every sensor with a handle is published
\* under its own identifier, also when a lower channel failed to bind
C37_IdentifierKeepsItsChannel ==
    (ticked.valid /\ variant \in {"v1", "bb", "mk2", "mk1"}) =>
        /\ \A i \in 1..Len(ticked.payload) :
              LET s == ticked.payload[i].id
              IN /\ s \in Sensors
                 /\ ticked.payload[i].val = SensorEntry(sensor_objs[s], ticked.hw[s])
        /\ \A s \in Sensors : sensor_objs[s] => EntriesOf(ticked.payload, s) # {}

\* ------------------------------------------------------------------ C38
\* C38: packet_count is the number of telemetry datagrams handed to the
\* socket since startup: every tick adds to it the number of datagrams its
\* sendto calls accepted, whether the other sends failed or not, and no
\* other step changes it
C38_PacketCountIsDatagramsSent ==
    [][packet_count' = packet_count + (IF ticked'.valid THEN ticked'.published ELSE 0)]_vars

\* ------------------------------------------------------------------ C39
\* the status replies of a handling that reached the socket
StatusReplies(log) == SelectSeq(log, LAMBDA x : x.e = "reply" /\ x.m.type = "STATUS")

\* C39: the initialized-sensor count a get_status reply carries is the
\* number of sensors that hold a handle, and it is not greater than the
\* configured count the reply carries beside it
C39_InitializedCountIsBoundCount ==
    (HandledGetStatus /\ variant \in {"bb", "mk2"}) =>
        \A i \in 1..Len(StatusReplies(handled.log)) :
            LET m == StatusReplies(handled.log)[i].m
            IN /\ m.n1 = Cardinality({s \in Sensors : sensor_objs[s]})
               /\ m.n1 <= m.n2

C39_Witness ==
    /\ variant = "mk2"
    /\ HandledGetStatus
    /\ sensor_objs[1] /\ ~sensor_objs[2]
    /\ Len(StatusReplies(handled.log)) = 1
    /\ StatusReplies(handled.log)[1].m.n1 = 1
    /\ StatusReplies(handled.log)[1].m.n2 = NumSensors

=============================================================================
